---- MODULE Spec2Model ----
(***************************************************************************)
(* Token lifecycle of apps/authentication/services.py (AuthService):       *)
(* issuance, verification, refresh, logout and password-reset tokens over  *)
(* the Django cache and the User table.                                    *)
(*                                                                         *)
(* Time is counted in hours since the epoch of the model.  A JWT string is *)
(* modelled by its decoded content: two strings are equal iff their claims *)
(* (including the random jti) are equal.                                   *)
(***************************************************************************)
EXTENDS Integers, FiniteSets, Sequences, TLC

\* ---------------------------------------------------------------- bounds
MaxMints == 2
MaxTime == 240

\* ------------------------------------------------------------- constants
JWT_EXPIRATION_HOURS == 24
JWT_REFRESH_EXPIRATION_DAYS == 7
RESET_EXPIRATION_HOURS == 12
\* TIME_ZONE = 'Asia/Shanghai': Django exports it as the process zone (TZ),
\* so a naive datetime is read as UTC+8 by datetime.timestamp().
LOCAL_UTC_OFFSET_HOURS == 8

ACCESS_TOKEN_TYPE == "access"
REFRESH_TOKEN_TYPE == "refresh"
RESET_TOKEN_TYPE == "reset"

\* ids of the rows of the User table
UserIds == {1}
\* ids a caller can pass as user_id (cache keys exist for any id)
SubjectIds == {1, 2}
STATUS_CHOICES == {"active", "inactive", "suspended"}
Passwords == {"testpassword123", "newpassword123"}
\* the instants at which requests arrive are 80 hours apart
ClockSteps == {80}
\* arguments of _generate_token tried directly: user ids, and expires_delta
\* in hours (the configured ones, zero, one hour, the zone offset)
CodecUserIds == {1, 2, 42}
\* request handlers that run at the same time
Workers == {1, 2}
ExpiresDeltas == {0, 1, 8, 12, 24, 168}
\* the store or database operation that raises during a call ("none": none)
LogoutFaults == {"none", "cache.delete", "cache.set"}
ResetFaults == {"none", "user.save", "cache.delete"}

None == 0
\* the call did not return: an exception left the function
Raised == -1

\* The absent optional argument / absent cache value.
NoToken == [wf |-> FALSE, uid |-> 0, typ |-> "none", iat |-> 0, exp |-> 0, jti |-> 0]
\* "invalid.token.here": three segments that are not a signed token.
InvalidToken == [wf |-> FALSE, uid |-> 0, typ |-> "invalid", iat |-> 0, exp |-> 0, jti |-> 0]
\* "": the empty string
EmptyString == [wf |-> FALSE, uid |-> 0, typ |-> "empty", iat |-> 0, exp |-> 0, jti |-> 0]
\* "invalid.token": two segments
TwoSegments == [wf |-> FALSE, uid |-> 0, typ |-> "two_segments", iat |-> 0, exp |-> 0, jti |-> 0]
\* "a.b.c.d": four segments
FourSegments == [wf |-> FALSE, uid |-> 0, typ |-> "four_segments", iat |-> 0, exp |-> 0, jti |-> 0]
NoEntry == [val |-> NoToken, until |-> 0]

VARIABLES
    now,            \* the wall clock (time.time()), in hours
    users,          \* the User table: id -> row
    password,       \* the credential of each user
    tokens,         \* every token string minted so far
    refresh_slot,   \* cache key refresh_token:{user_id}
    reset_slot,     \* cache key password_reset:{user_id}
    blacklist,      \* cache keys blacklist_token:{jti}: jti -> expiry (0: absent)
    loggedOut,      \* history: logout_user(u) ran since the last generate_tokens(u)
    last,           \* the last call and what it returned
    calls           \* the calls of concurrent request handlers: worker -> frame

vars == <<now, users, password, tokens, refresh_slot, reset_slot, blacklist, loggedOut, last, calls>>

\* ------------------------------------------------------------ pure parts

\* int(datetime.utcnow().timestamp()): the naive UTC datetime is interpreted
\* in the process's local zone, so the result trails time.time() by the
\* zone's UTC offset.
utcnow_timestamp(t) == t - LOCAL_UTC_OFFSET_HOURS

\* mutation of RefreshTimeout: the access-token lifetime is used as the timeout
RefreshTimeout_access_ttl == JWT_EXPIRATION_HOURS

\* cache timeout of the refresh record (JWT_REFRESH_EXPIRATION_DAYS*24*3600 s)
RefreshTimeout == JWT_REFRESH_EXPIRATION_DAYS * 24

\* AuthService._generate_token at wall-clock time t with a fresh jti
_generate_token(user_id, token_type, expires_delta, t, jti) ==
    [wf |-> TRUE, uid |-> user_id, typ |-> token_type,
     iat |-> utcnow_timestamp(t),
     exp |-> utcnow_timestamp(t) + expires_delta,
     jti |-> jti]

\* mutation of jwt_decode: expiry is not verified (verify_exp off)
jwt_decode_no_exp(tok, t) ==
    IF ~tok.wf THEN "InvalidTokenError"
    ELSE IF tok.iat > t THEN "ImmatureSignatureError"
    ELSE "ok"

\* mutation of jwt_decode: a token is still accepted in the second of its exp
jwt_decode_exp_strict(tok, t) ==
    IF ~tok.wf THEN "InvalidTokenError"
    ELSE IF tok.iat > t THEN "ImmatureSignatureError"
    ELSE IF tok.exp < t THEN "ExpiredSignatureError"
    ELSE "ok"

\* jwt.decode(token, key, algorithms=[...]) at wall-clock time t: the error it
\* raises, or "ok" when it returns the payload (the token record itself).
jwt_decode(tok, t) ==
    IF ~tok.wf THEN "InvalidTokenError"
    ELSE IF tok.iat > t THEN "ImmatureSignatureError"
    ELSE IF tok.exp <= t THEN "ExpiredSignatureError"
    ELSE "ok"

\* the payload jwt.decode returns for a token it accepts
jwt_payload(tok) ==
    [user_id |-> tok.uid, token_type |-> tok.typ, exp |-> tok.exp, iat |-> tok.iat, jti |-> tok.jti]

\* mutation of ActiveUser: the status filter is missing
ActiveUser_no_status(us, user_id) ==
    /\ user_id \in UserIds
    /\ ~us[user_id].is_deleted

\* User.objects.get(id=user_id, is_deleted=False, status='active') finds a row
ActiveUser(us, user_id) ==
    /\ user_id \in UserIds
    /\ ~us[user_id].is_deleted
    /\ us[user_id].status = "active"

\* mutation of UndeletedUser: the lookup also filters on status='active'
UndeletedUser_active_only(us, user_id) ==
    /\ user_id \in UserIds
    /\ ~us[user_id].is_deleted
    /\ us[user_id].status = "active"

\* mutation of UndeletedUser: the is_deleted filter is missing
UndeletedUser_any_row(us, user_id) ==
    user_id \in UserIds

\* User.objects.get(id=user_id, is_deleted=False) finds a row
UndeletedUser(us, user_id) ==
    /\ user_id \in UserIds
    /\ ~us[user_id].is_deleted

\* cache.get(key): the stored value, None once the timeout has passed
cache_get(entry, t) == IF entry.until > t THEN entry.val ELSE NoToken

\* mutation of verify_token: the branches of the user lookup are swapped
verify_token_swapped(tok, us, t) ==
    IF jwt_decode(tok, t) # "ok" THEN None
    ELSE IF tok.typ # ACCESS_TOKEN_TYPE THEN None
    ELSE IF tok.uid = 0 THEN None
    ELSE IF ActiveUser(us, tok.uid) THEN None
    ELSE tok.uid

\* mutation of verify_token: the token_type check is missing
verify_token_no_kind(tok, us, t) ==
    IF jwt_decode(tok, t) # "ok" THEN None
    ELSE IF tok.uid = 0 THEN None
    ELSE IF ActiveUser(us, tok.uid) THEN tok.uid
    ELSE None

\* mutation of verify_token: a token whose jti is on the blacklist is refused
verify_token_reads_blacklist(tok, us, t) ==
    IF jwt_decode(tok, t) # "ok" THEN None
    ELSE IF tok.jti \in DOMAIN blacklist /\ blacklist[tok.jti] # 0 THEN None
    ELSE IF tok.typ # ACCESS_TOKEN_TYPE THEN None
    ELSE IF tok.uid = 0 THEN None
    ELSE IF ActiveUser(us, tok.uid) THEN tok.uid
    ELSE None

\* mutation of verify_token: only ExpiredSignatureError is caught, so the
\* error of a string that does not decode leaves the function (-1)
verify_token_uncaught(tok, us, t) ==
    IF jwt_decode(tok, t) = "InvalidTokenError" THEN -1
    ELSE IF jwt_decode(tok, t) # "ok" THEN None
    ELSE IF tok.typ # ACCESS_TOKEN_TYPE THEN None
    ELSE IF tok.uid = 0 THEN None
    ELSE IF ActiveUser(us, tok.uid) THEN tok.uid
    ELSE None

\* AuthService.verify_token: the user id, or None
verify_token(tok, us, t) ==
    IF jwt_decode(tok, t) # "ok" THEN None
    ELSE IF tok.typ # ACCESS_TOKEN_TYPE THEN None
    ELSE IF tok.uid = 0 THEN None
    ELSE IF ActiveUser(us, tok.uid) THEN tok.uid
    ELSE None

\* mutation of refresh_accepts: the cached token is only required to exist
refresh_accepts_any_cached(tok, us, slots, t) ==
    /\ jwt_decode(tok, t) = "ok"
    /\ tok.typ = REFRESH_TOKEN_TYPE
    /\ tok.uid # 0
    /\ ActiveUser(us, tok.uid)
    /\ cache_get(slots[tok.uid], t) # NoToken

\* mutation of refresh_accepts: the cached token is compared by user only
refresh_accepts_same_user(tok, us, slots, t) ==
    /\ jwt_decode(tok, t) = "ok"
    /\ tok.typ = REFRESH_TOKEN_TYPE
    /\ tok.uid # 0
    /\ ActiveUser(us, tok.uid)
    /\ cache_get(slots[tok.uid], t) # NoToken
    /\ cache_get(slots[tok.uid], t).uid = tok.uid

\* AuthService.refresh_access_token up to the minting: TRUE iff every check
\* passes and a new access token is generated
refresh_accepts(tok, us, slots, t) ==
    /\ jwt_decode(tok, t) = "ok"
    /\ tok.typ = REFRESH_TOKEN_TYPE
    /\ tok.uid # 0
    /\ ActiveUser(us, tok.uid)
    /\ cache_get(slots[tok.uid], t) # NoToken
    /\ cache_get(slots[tok.uid], t) = tok

\* refresh_access_token reaches cache.get(cache_key): the token decodes, is a
\* refresh token, names a user, and the user is found
cache_get_reached(tok, us, t) ==
    /\ jwt_decode(tok, t) = "ok"
    /\ tok.typ = REFRESH_TOKEN_TYPE
    /\ tok.uid # 0
    /\ ActiveUser(us, tok.uid)

\* mutation of verify_password_reset_token: the token must be the one stored
\* in password_reset:{user_id}
verify_password_reset_token_stored(tok, us, t) ==
    IF jwt_decode(tok, t) # "ok" THEN None
    ELSE IF tok.typ # RESET_TOKEN_TYPE THEN None
    ELSE IF tok.uid = 0 THEN None
    ELSE IF ~UndeletedUser(us, tok.uid) THEN None
    ELSE IF cache_get(reset_slot[tok.uid], t) # tok THEN None
    ELSE tok.uid

\* AuthService.verify_password_reset_token: the user (its id), or None
verify_password_reset_token(tok, us, t) ==
    IF jwt_decode(tok, t) # "ok" THEN None
    ELSE IF tok.typ # RESET_TOKEN_TYPE THEN None
    ELSE IF tok.uid = 0 THEN None
    ELSE IF UndeletedUser(us, tok.uid) THEN tok.uid
    ELSE None

\* mutation of set_password: the new hash is never written to the row
set_password_not_saved(pw, user_id, raw_password) == pw

\* user.set_password(raw_password); user.save(update_fields=['password'])
set_password(pw, user_id, raw_password) == [pw EXCEPT ![user_id] = raw_password]

\* user.check_password(raw_password)
check_password(pw, user_id, raw_password) == pw[user_id] = raw_password

\* mutation of logout_user_returns: the inner try/except is missing, so a
\* failing blacklist insertion reaches the outer except as well
logout_user_returns_no_inner_except(fault) == IF fault = "none" THEN 1 ELSE 0

\* logout_user reaches cache.set(blacklist_key, ...): a token was given, it
\* decodes, carries a jti and has time left by the service's clock
blacklist_insertion_reached(tok, t) ==
    /\ tok \notin {NoToken, EmptyString}
    /\ jwt_decode(tok, t) = "ok"
    /\ tok.jti # 0
    /\ tok.exp - utcnow_timestamp(t) > 0

\* what logout_user returns: False from the outer except (cache.delete
\* raised), True otherwise
logout_user_returns(fault) == IF fault = "cache.delete" THEN 0 ELSE 1

\* len(token.split('.'))
segments(tok) ==
    IF tok = EmptyString THEN 1
    ELSE IF tok = TwoSegments THEN 2
    ELSE IF tok = FourSegments THEN 4
    ELSE 3

\* AuthService.validate_token_format
validate_token_format(tok) ==
    /\ tok \notin {NoToken, EmptyString}
    /\ segments(tok) = 3

\* the names bound in the namespace of apps/authentication/api.py by its
\* imports; the name settings is not among them
ApiModuleNames ==
    {"Router", "get_user_model", "ValidationError", "send_mail", "csrf_exempt",
     "django_login", "django_logout", "method_decorator", "datetime", "logging",
     "AuthBearer", "AuthService", "LoginRequest", "LoginResponse",
     "RefreshTokenRequest", "RefreshTokenResponse", "LogoutRequest",
     "LogoutResponse", "TokenValidationRequest", "TokenValidationResponse",
     "PasswordResetRequest", "PasswordResetConfirm", "PasswordChangeRequest",
     "UserInfoResponse", "RegisterRequest", "RegisterResponse",
     "User", "router", "logger"}

\* the endpoint validate_token of api.py: the user_id of the response when it
\* reports valid=True, None when it reports valid=False.  Evaluating
\* settings.JWT_SECRET_KEY raises NameError when the module does not bind
\* settings; the except Exception of the endpoint answers valid=False.
api_validate_token(tok, us, t) ==
    IF ~validate_token_format(tok) THEN None
    ELSE IF verify_token(tok, us, t) = None THEN None
    ELSE IF "settings" \notin ApiModuleNames THEN None
    ELSE IF jwt_decode(tok, t) # "ok" THEN None
    ELSE verify_token(tok, us, t)

\* number of minting calls so far (generate_tokens mints a pair)
Mints == Cardinality(tokens) - Cardinality({tok \in tokens : tok.typ = REFRESH_TOKEN_TYPE})

\* secrets.token_urlsafe(16): a value no earlier token carries
FreshJti(n) == Cardinality(tokens) + n

\* what a caller can present as a token string
TokenInputs == tokens \cup {InvalidToken}

\* a minted token whose third segment was replaced: same header and payload,
\* wrong signature
Forged(tok) == [tok EXCEPT !.wf = FALSE]

\* the strings that are not signed tokens
MalformedInputs ==
    {EmptyString, TwoSegments, InvalidToken, FourSegments} \cup {Forged(tok) : tok \in tokens}

\* a call record: the operation, its arguments (uid, tok, arg), what it
\* returned (res) and the operation of the store or the database that raised
\* during the call (fault, "none" when all of them worked)
CalledWith(op, uid, tok, res, fault, arg) ==
    [op |-> op, uid |-> uid, tok |-> tok, res |-> res, fault |-> fault, arg |-> arg]
Called(op, uid, tok, res) == CalledWith(op, uid, tok, res, "none", "")
Idle == Called("none", 0, NoToken, None)

\* the frame of a handler: where it stands (pc), the refresh token it minted
\* or presents (tok), what refresh_access_token returned to it (res), the
\* rank of its cache.set among the writes of the record (landed) and the time
\* of its refresh (at)
NoCall == [pc |-> "idle", tok |-> NoToken, res |-> None, landed |-> 0, at |-> 0]

\* ---------------------------------------------------------------- Init

Init ==
    /\ now = 0
    /\ users = [u \in UserIds |-> [is_deleted |-> FALSE, status |-> "active"]]
    /\ password = [u \in UserIds |-> "testpassword123"]
    /\ tokens = {}
    /\ refresh_slot = [u \in SubjectIds |-> NoEntry]
    /\ reset_slot = [u \in UserIds |-> NoEntry]
    /\ blacklist = [j \in 1..(2 * MaxMints + 2) |-> 0]
    /\ loggedOut = [u \in UserIds |-> FALSE]
    /\ last = Idle
    /\ calls = [w \in Workers |-> NoCall]

\* ------------------------------------------------------------- actions

\* mutation of GenerateTokens: the failure of cache.set is caught and None is
\* returned
GenerateTokens_swallow(u, fault) ==
    /\ last = Idle
    /\ Mints < MaxMints
    /\ IF fault = "cache.set"
       THEN /\ UNCHANGED <<tokens, refresh_slot, loggedOut>>
            /\ last' = CalledWith("generate_tokens", u, NoToken, None, fault, "")
       ELSE LET access_token == _generate_token(u, ACCESS_TOKEN_TYPE, JWT_EXPIRATION_HOURS, now, FreshJti(1))
                refresh_token == _generate_token(u, REFRESH_TOKEN_TYPE, JWT_REFRESH_EXPIRATION_DAYS * 24, now, FreshJti(2))
            IN /\ tokens' = tokens \cup {access_token, refresh_token}
               /\ refresh_slot' = [refresh_slot EXCEPT ![u] = [val |-> refresh_token, until |-> now + RefreshTimeout]]
               /\ loggedOut' = [loggedOut EXCEPT ![u] = FALSE]
               /\ last' = Called("generate_tokens", u, refresh_token, access_token.jti)
    /\ UNCHANGED <<calls, now, users, password, reset_slot, blacklist>>

\* AuthService.generate_tokens(user) while the operation `fault` of the store
\* raises: the function has no try, so the exception of cache.set leaves it
\* and the pair it minted reaches nobody
GenerateTokens(u, fault) ==
    /\ last = Idle
    /\ Mints < MaxMints
    /\ IF fault = "cache.set"
       THEN /\ UNCHANGED <<tokens, refresh_slot, loggedOut>>
            /\ last' = CalledWith("generate_tokens", u, NoToken, Raised, fault, "")
       ELSE LET access_token == _generate_token(u, ACCESS_TOKEN_TYPE, JWT_EXPIRATION_HOURS, now, FreshJti(1))
                refresh_token == _generate_token(u, REFRESH_TOKEN_TYPE, JWT_REFRESH_EXPIRATION_DAYS * 24, now, FreshJti(2))
            IN /\ tokens' = tokens \cup {access_token, refresh_token}
               /\ refresh_slot' = [refresh_slot EXCEPT ![u] = [val |-> refresh_token, until |-> now + RefreshTimeout]]
               /\ loggedOut' = [loggedOut EXCEPT ![u] = FALSE]
               /\ last' = Called("generate_tokens", u, refresh_token, access_token.jti)
    /\ UNCHANGED <<calls, now, users, password, reset_slot, blacklist>>

\* AuthService.verify_token(token)
VerifyToken(tok) ==
    /\ last = Idle
    /\ last' = Called("verify_token", 0, tok, verify_token(tok, users, now))
    /\ UNCHANGED <<calls, now, users, password, tokens, refresh_slot, reset_slot, blacklist, loggedOut>>

\* mutation of RefreshAccessToken: a successful refresh consumes the stored
\* refresh token
RefreshAccessToken_rotating(tok, fault) ==
    /\ last = Idle
    /\ fault = "cache.get" => cache_get_reached(tok, users, now)
    /\ IF fault = "cache.get"
       THEN /\ tokens' = tokens
            /\ refresh_slot' = refresh_slot
            /\ last' = CalledWith("refresh_access_token", 0, tok, None, fault, "")
       ELSE IF refresh_accepts(tok, users, refresh_slot, now)
       THEN /\ Mints < MaxMints
            /\ LET new_access_token == _generate_token(tok.uid, ACCESS_TOKEN_TYPE, JWT_EXPIRATION_HOURS, now, FreshJti(1))
               IN /\ tokens' = tokens \cup {new_access_token}
                  /\ last' = Called("refresh_access_token", 0, tok, new_access_token.jti)
            /\ refresh_slot' = [refresh_slot EXCEPT ![tok.uid] = NoEntry]
       ELSE /\ tokens' = tokens
            /\ refresh_slot' = refresh_slot
            /\ last' = Called("refresh_access_token", 0, tok, None)
    /\ UNCHANGED <<calls, now, users, password, reset_slot, blacklist, loggedOut>>

\* AuthService.refresh_access_token(refresh_token) while the operation
\* `fault` of the store raises: the exception of cache.get is caught by the
\* except Exception of the function, which returns None
RefreshAccessToken(tok, fault) ==
    /\ last = Idle
    /\ fault = "cache.get" => cache_get_reached(tok, users, now)
    /\ IF fault = "cache.get"
       THEN /\ tokens' = tokens
            /\ last' = CalledWith("refresh_access_token", 0, tok, None, fault, "")
       ELSE IF refresh_accepts(tok, users, refresh_slot, now)
       THEN /\ Mints < MaxMints
            /\ LET new_access_token == _generate_token(tok.uid, ACCESS_TOKEN_TYPE, JWT_EXPIRATION_HOURS, now, FreshJti(1))
               IN /\ tokens' = tokens \cup {new_access_token}
                  /\ last' = Called("refresh_access_token", 0, tok, new_access_token.jti)
       ELSE /\ tokens' = tokens
            /\ last' = Called("refresh_access_token", 0, tok, None)
    /\ UNCHANGED <<calls, now, users, password, refresh_slot, reset_slot, blacklist, loggedOut>>

\* mutation of LogoutUser: the record of the user named in the token is
\* deleted as well
LogoutUser_token_owner(u, tok, fault) ==
    /\ last = Idle
    /\ fault = "cache.set" => blacklist_insertion_reached(tok, now)
    /\ refresh_slot' =
         IF fault = "cache.delete" THEN refresh_slot
         ELSE [v \in SubjectIds |-> IF v = u \/ v = tok.uid THEN NoEntry ELSE refresh_slot[v]]
    /\ blacklist' =
         IF fault = "none" /\ blacklist_insertion_reached(tok, now)
         THEN [blacklist EXCEPT ![tok.jti] = now + (tok.exp - utcnow_timestamp(now))]
         ELSE blacklist
    /\ loggedOut' = [v \in UserIds |-> loggedOut[v] \/ v = u]
    /\ last' = CalledWith("logout_user", u, tok, logout_user_returns(fault), fault, "")
    /\ UNCHANGED <<calls, now, users, password, tokens, reset_slot>>

\* mutation of LogoutUser: deleting a record that is not there is an error
LogoutUser_missing_is_error(u, tok, fault) ==
    /\ last = Idle
    /\ fault = "cache.set" => blacklist_insertion_reached(tok, now)
    /\ refresh_slot' =
         IF fault = "cache.delete" THEN refresh_slot
         ELSE [refresh_slot EXCEPT ![u] = NoEntry]
    /\ blacklist' =
         IF fault = "none" /\ blacklist_insertion_reached(tok, now)
         THEN [blacklist EXCEPT ![tok.jti] = now + (tok.exp - utcnow_timestamp(now))]
         ELSE blacklist
    /\ loggedOut' = [v \in UserIds |-> loggedOut[v] \/ v = u]
    /\ last' = CalledWith("logout_user", u, tok,
                          IF refresh_slot[u] = NoEntry THEN 0 ELSE logout_user_returns(fault),
                          fault, "")
    /\ UNCHANGED <<calls, now, users, password, tokens, reset_slot>>

\* AuthService.logout_user(user_id, refresh_token) while the operation `fault`
\* of the store raises: a failing cache.delete leaves through the outer
\* except, a failing jwt.decode or cache.set is swallowed by the inner one
LogoutUser(u, tok, fault) ==
    /\ last = Idle
    /\ fault = "cache.set" => blacklist_insertion_reached(tok, now)
    /\ refresh_slot' =
         IF fault = "cache.delete" THEN refresh_slot
         ELSE [refresh_slot EXCEPT ![u] = NoEntry]
    /\ blacklist' =
         IF fault = "none" /\ blacklist_insertion_reached(tok, now)
         THEN [blacklist EXCEPT ![tok.jti] = now + (tok.exp - utcnow_timestamp(now))]
         ELSE blacklist
    /\ loggedOut' = [v \in UserIds |-> loggedOut[v] \/ v = u]
    /\ last' = CalledWith("logout_user", u, tok, logout_user_returns(fault), fault, "")
    /\ UNCHANGED <<calls, now, users, password, tokens, reset_slot>>

\* AuthService.generate_password_reset_token(user) while the operation
\* `fault` of the store raises: the function has no try, so the exception of
\* cache.set leaves it
GeneratePasswordResetToken(u, fault) ==
    /\ last = Idle
    /\ Mints < MaxMints
    /\ IF fault = "cache.set"
       THEN /\ UNCHANGED <<tokens, reset_slot>>
            /\ last' = CalledWith("generate_password_reset_token", u, NoToken, Raised, fault, "")
       ELSE LET reset_token == _generate_token(u, RESET_TOKEN_TYPE, RESET_EXPIRATION_HOURS, now, FreshJti(1))
            IN /\ tokens' = tokens \cup {reset_token}
               /\ reset_slot' = [reset_slot EXCEPT ![u] = [val |-> reset_token, until |-> now + RESET_EXPIRATION_HOURS]]
               /\ last' = Called("generate_password_reset_token", u, reset_token, reset_token.jti)
    /\ UNCHANGED <<calls, now, users, password, refresh_slot, blacklist, loggedOut>>

\* AuthService.verify_password_reset_token(token)
VerifyPasswordResetToken(tok) ==
    /\ last = Idle
    /\ last' = Called("verify_password_reset_token", 0, tok, verify_password_reset_token(tok, users, now))
    /\ UNCHANGED <<calls, now, users, password, tokens, refresh_slot, reset_slot, blacklist, loggedOut>>

\* mutation of ResetUserPassword: a successful reset also deletes the user's
\* refresh_token:{user_id} record
ResetUserPassword_ends_session(tok, new_password, fault) ==
    LET user == verify_password_reset_token(tok, users, now)
    IN /\ last = Idle
       /\ fault # "none" => user # None
       /\ IF user = None
          THEN /\ UNCHANGED <<calls, password, reset_slot, refresh_slot>>
               /\ last' = CalledWith("reset_user_password", 0, tok, 0, fault, new_password)
          ELSE /\ password' =
                    IF fault = "user.save" THEN password
                    ELSE set_password(password, user, new_password)
               /\ reset_slot' =
                    IF fault = "none" THEN [reset_slot EXCEPT ![user] = NoEntry]
                    ELSE reset_slot
               /\ refresh_slot' =
                    IF fault = "none" THEN [refresh_slot EXCEPT ![user] = NoEntry]
                    ELSE refresh_slot
               /\ last' = CalledWith("reset_user_password", 0, tok,
                                     IF fault = "none" THEN 1 ELSE 0, fault, new_password)
       /\ UNCHANGED <<calls, now, users, tokens, blacklist, loggedOut>>

\* AuthService.reset_user_password(token, new_password) while the operation
\* `fault` raises: user.save before the row is written, cache.delete after it
ResetUserPassword(tok, new_password, fault) ==
    LET user == verify_password_reset_token(tok, users, now)
    IN /\ last = Idle
       /\ fault # "none" => user # None
       /\ IF user = None
          THEN /\ UNCHANGED <<calls, password, reset_slot>>
               /\ last' = CalledWith("reset_user_password", 0, tok, 0, fault, new_password)
          ELSE /\ password' =
                    IF fault = "user.save" THEN password
                    ELSE set_password(password, user, new_password)
               /\ reset_slot' =
                    IF fault = "none" THEN [reset_slot EXCEPT ![user] = NoEntry]
                    ELSE reset_slot
               /\ last' = CalledWith("reset_user_password", 0, tok,
                                     IF fault = "none" THEN 1 ELSE 0, fault, new_password)
       /\ UNCHANGED <<calls, now, users, tokens, refresh_slot, blacklist, loggedOut>>

\* AuthService._generate_token(user_id, token_type, expires_delta) called
\* directly; the record keeps the arguments (expires_delta as res) and the
\* token returned
GenerateToken(user_id, token_type, expires_delta) ==
    /\ last = Idle
    /\ last' = CalledWith("_generate_token", user_id,
                          _generate_token(user_id, token_type, expires_delta, now, FreshJti(1)),
                          expires_delta, "none", token_type)
    /\ UNCHANGED <<calls, now, users, password, tokens, refresh_slot, reset_slot, blacklist, loggedOut>>

\* generate_tokens(user) in handler w, lines 50-62: both tokens are minted
IssueMint(w, u) ==
    /\ calls[w].pc = "idle"
    /\ LET access_token == _generate_token(u, ACCESS_TOKEN_TYPE, JWT_EXPIRATION_HOURS, now, FreshJti(1))
           refresh_token == _generate_token(u, REFRESH_TOKEN_TYPE, JWT_REFRESH_EXPIRATION_DAYS * 24, now, FreshJti(2))
       IN /\ tokens' = tokens \cup {access_token, refresh_token}
          /\ calls' = [calls EXCEPT ![w] = [NoCall EXCEPT !.pc = "minted", !.tok = refresh_token]]
    /\ UNCHANGED <<now, users, password, refresh_slot, reset_slot, blacklist, loggedOut, last>>

\* mutation of IssueStore: the record is written with cache.add, which keeps
\* a value that is already there
IssueStore_add(w) ==
    /\ calls[w].pc = "minted"
    /\ refresh_slot' =
         IF cache_get(refresh_slot[calls[w].tok.uid], now) # NoToken THEN refresh_slot
         ELSE [refresh_slot EXCEPT ![calls[w].tok.uid] =
                  [val |-> calls[w].tok, until |-> now + RefreshTimeout]]
    /\ loggedOut' = [loggedOut EXCEPT ![calls[w].tok.uid] = FALSE]
    /\ calls' = [calls EXCEPT ![w].pc = "returned",
                              ![w].landed = 1 + Cardinality({v \in Workers : calls[v].landed > 0})]
    /\ UNCHANGED <<now, users, password, tokens, reset_slot, blacklist, last>>

\* generate_tokens(user) in handler w, lines 64-76: cache.set writes the
\* refresh record and the pair is returned
IssueStore(w) ==
    /\ calls[w].pc = "minted"
    /\ refresh_slot' = [refresh_slot EXCEPT ![calls[w].tok.uid] =
                           [val |-> calls[w].tok, until |-> now + RefreshTimeout]]
    /\ loggedOut' = [loggedOut EXCEPT ![calls[w].tok.uid] = FALSE]
    /\ calls' = [calls EXCEPT ![w].pc = "returned",
                              ![w].landed = 1 + Cardinality({v \in Workers : calls[v].landed > 0})]
    /\ UNCHANGED <<now, users, password, tokens, reset_slot, blacklist, last>>

\* refresh_access_token called with the refresh token that handler w
\* returned, once every generate_tokens call has returned
RefreshReturned(w) ==
    /\ calls[w].pc = "returned"
    /\ \A v \in Workers : calls[v].pc \in {"returned", "refreshed"}
    /\ IF refresh_accepts(calls[w].tok, users, refresh_slot, now)
       THEN LET new_access_token == _generate_token(calls[w].tok.uid, ACCESS_TOKEN_TYPE, JWT_EXPIRATION_HOURS, now, FreshJti(1))
            IN /\ tokens' = tokens \cup {new_access_token}
               /\ calls' = [calls EXCEPT ![w].pc = "refreshed", ![w].res = new_access_token.jti, ![w].at = now]
       ELSE /\ tokens' = tokens
            /\ calls' = [calls EXCEPT ![w].pc = "refreshed", ![w].res = None, ![w].at = now]
    /\ UNCHANGED <<now, users, password, refresh_slot, reset_slot, blacklist, loggedOut, last>>

\* refresh_access_token(refresh_token) in handler w, lines 178-209: the token
\* is decoded, the user looked up and the stored record read and compared;
\* a failed check returns None at once
RefreshCheck(w, tok) ==
    /\ calls[w].pc \in {"idle", "refreshed"}
    /\ calls' = [calls EXCEPT ![w] =
                   IF refresh_accepts(tok, users, refresh_slot, now)
                   THEN [NoCall EXCEPT !.pc = "checked", !.tok = tok]
                   ELSE [NoCall EXCEPT !.pc = "refreshed", !.tok = tok, !.res = None, !.at = now]]
    /\ UNCHANGED <<now, users, password, tokens, refresh_slot, reset_slot, blacklist, loggedOut, last>>

\* refresh_access_token in handler w, lines 211-224: the access token is
\* minted and returned; the stored record is not read again
RefreshMint(w) ==
    /\ calls[w].pc = "checked"
    /\ Mints < MaxMints
    /\ LET new_access_token == _generate_token(calls[w].tok.uid, ACCESS_TOKEN_TYPE, JWT_EXPIRATION_HOURS, now, FreshJti(1))
       IN /\ tokens' = tokens \cup {new_access_token}
          /\ calls' = [calls EXCEPT ![w].pc = "refreshed", ![w].res = new_access_token.jti, ![w].at = now]
    /\ UNCHANGED <<now, users, password, refresh_slot, reset_slot, blacklist, loggedOut, last>>

\* POST /auth/validate (api.validate_token)
ValidateToken(tok) ==
    /\ last = Idle
    /\ last' = Called("validate_token", 0, tok, api_validate_token(tok, users, now))
    /\ UNCHANGED <<calls, now, users, password, tokens, refresh_slot, reset_slot, blacklist, loggedOut>>

\* User.soft_delete()
SoftDelete(u) ==
    /\ last = Idle
    /\ users' = [users EXCEPT ![u] = [is_deleted |-> TRUE, status |-> "deleted"]]
    /\ last' = Idle
    /\ UNCHANGED <<calls, now, password, tokens, refresh_slot, reset_slot, blacklist, loggedOut>>

\* User.restore()
Restore(u) ==
    /\ last = Idle
    /\ users' = [users EXCEPT ![u] = [is_deleted |-> FALSE, status |-> "active"]]
    /\ last' = Idle
    /\ UNCHANGED <<calls, now, password, tokens, refresh_slot, reset_slot, blacklist, loggedOut>>

\* user.status = s; user.save()
SetStatus(u, s) ==
    /\ last = Idle
    /\ ~users[u].is_deleted
    /\ users' = [users EXCEPT ![u].status = s]
    /\ last' = Idle
    /\ UNCHANGED <<calls, now, password, tokens, refresh_slot, reset_slot, blacklist, loggedOut>>

\* the clock advances; the cache drops the entries whose timeout has passed
Tick(d) ==
    /\ last = Idle
    /\ now + d <= MaxTime
    /\ now' = now + d
    /\ refresh_slot' = [u \in SubjectIds |-> IF refresh_slot[u].until > now + d THEN refresh_slot[u] ELSE NoEntry]
    /\ reset_slot' = [u \in UserIds |-> IF reset_slot[u].until > now + d THEN reset_slot[u] ELSE NoEntry]
    /\ blacklist' = [j \in DOMAIN blacklist |-> IF blacklist[j] > now + d THEN blacklist[j] ELSE 0]
    /\ last' = Idle
    /\ UNCHANGED <<calls, users, password, tokens, loggedOut>>

\* the result of the call is handed back to the caller
Respond ==
    /\ last # Idle
    /\ last' = Idle
    /\ UNCHANGED <<calls, now, users, password, tokens, refresh_slot, reset_slot, blacklist, loggedOut>>

Next ==
    \/ \E u \in UserIds : GenerateTokens(u, "none")
    \/ \E tok \in TokenInputs : VerifyToken(tok)
    \/ \E tok \in TokenInputs : RefreshAccessToken(tok, "none")
    \/ \E u \in SubjectIds, tok \in TokenInputs \cup {NoToken} : LogoutUser(u, tok, "none")
    \/ \E u \in UserIds : GeneratePasswordResetToken(u, "none")
    \/ \E tok \in TokenInputs : VerifyPasswordResetToken(tok)
    \/ \E tok \in TokenInputs, p \in Passwords : ResetUserPassword(tok, p, "none")
    \/ \E u \in UserIds : SoftDelete(u)
    \/ \E u \in UserIds : Restore(u)
    \/ \E u \in UserIds, s \in STATUS_CHOICES : SetStatus(u, s)
    \/ \E d \in ClockSteps : Tick(d)
    \/ Respond

Spec == Init /\ [][Next]_vars

\* The calls of logout_user and reset_user_password during which an operation
\* of the store or of the database may raise, on every string a caller can
\* present.
NextFaults ==
    \/ \E u \in UserIds : GenerateTokens(u, "none")
    \/ \E u \in UserIds : GeneratePasswordResetToken(u, "none")
    \/ \E u \in SubjectIds, tok \in tokens \cup MalformedInputs \cup {NoToken},
          fault \in LogoutFaults : LogoutUser(u, tok, fault)
    \/ \E tok \in tokens \cup MalformedInputs, p \in Passwords, fault \in ResetFaults :
          ResetUserPassword(tok, p, fault)
    \/ \E d \in ClockSteps : Tick(d)
    \/ Respond

SpecFaults == Init /\ [][NextFaults]_vars

\* The calls of generate_tokens, refresh_access_token and
\* generate_password_reset_token during which the store may raise.
NextStoreFaults ==
    \/ \E u \in UserIds, fault \in {"none", "cache.set"} : GenerateTokens(u, fault)
    \/ \E u \in UserIds, fault \in {"none", "cache.set"} : GeneratePasswordResetToken(u, fault)
    \/ \E tok \in TokenInputs, fault \in {"none", "cache.get"} : RefreshAccessToken(tok, fault)
    \/ \E u \in UserIds, s \in STATUS_CHOICES : SetStatus(u, s)
    \/ \E d \in ClockSteps : Tick(d)
    \/ Respond

SpecStoreFaults == Init /\ [][NextStoreFaults]_vars

\* The operations that take a token string, on every string a caller can
\* present: the minted tokens and the strings that are not signed tokens.
NextInputs ==
    \/ \E u \in UserIds : GenerateTokens(u, "none")
    \/ \E u \in UserIds : GeneratePasswordResetToken(u, "none")
    \/ \E tok \in tokens \cup MalformedInputs : VerifyToken(tok)
    \/ \E tok \in tokens \cup MalformedInputs : RefreshAccessToken(tok, "none")
    \/ \E tok \in tokens \cup MalformedInputs : VerifyPasswordResetToken(tok)
    \/ \E tok \in tokens \cup MalformedInputs, p \in Passwords : ResetUserPassword(tok, p, "none")
    \/ \E tok \in tokens \cup MalformedInputs : ValidateToken(tok)
    \/ \E u \in UserIds, s \in STATUS_CHOICES : SetStatus(u, s)
    \/ \E d \in ClockSteps : Tick(d)
    \/ Respond

SpecInputs == Init /\ [][NextInputs]_vars

\* _generate_token applied to every argument of the sets above at every
\* instant of the clock.
NextCodec ==
    \/ \E user_id \in CodecUserIds,
          token_type \in {ACCESS_TOKEN_TYPE, REFRESH_TOKEN_TYPE, RESET_TOKEN_TYPE},
          expires_delta \in ExpiresDeltas : GenerateToken(user_id, token_type, expires_delta)
    \/ \E d \in ClockSteps : Tick(d)
    \/ Respond

SpecCodec == Init /\ [][NextCodec]_vars

\* Two handlers run generate_tokens for the same user at the same time, each
\* in two steps; afterwards the refresh tokens they returned are presented.
NextConcurrent ==
    \/ \E w \in Workers, u \in UserIds : IssueMint(w, u)
    \/ \E w \in Workers : IssueStore(w)
    \/ \E w \in Workers : RefreshReturned(w)
    \/ \E u \in UserIds, s \in STATUS_CHOICES : SetStatus(u, s)
    \/ \E d \in ClockSteps : Tick(d)

SpecConcurrent == Init /\ [][NextConcurrent]_vars

\* Handlers run refresh_access_token in two steps while generate_tokens and
\* logout_user are called for the same user.
NextRace ==
    \/ \E u \in UserIds : GenerateTokens(u, "none")
    \/ \E u \in UserIds : LogoutUser(u, NoToken, "none")
    \/ \E w \in Workers, tok \in TokenInputs : RefreshCheck(w, tok)
    \/ \E w \in Workers : RefreshMint(w)
    \/ \E d \in ClockSteps : Tick(d)
    \/ Respond

SpecRace == Init /\ [][NextRace]_vars

\* --------------------------------------------------------------- claims

\* the row of user id u is present, not soft-deleted and has status 'active'
Eligible(u) == u \in UserIds /\ ~users[u].is_deleted /\ users[u].status = "active"

\* tok is the refresh token of the latest generate_tokens for its user
LatestRefresh(tok) ==
    /\ tok \in tokens
    /\ tok.typ = REFRESH_TOKEN_TYPE
    /\ \A t2 \in tokens : t2.typ = REFRESH_TOKEN_TYPE /\ t2.uid = tok.uid => t2.jti <= tok.jti

\* tok is a refresh token of a generate_tokens that a later one superseded
Superseded(tok) ==
    /\ tok \in tokens
    /\ tok.typ = REFRESH_TOKEN_TYPE
    /\ \E t2 \in tokens : t2.typ = REFRESH_TOKEN_TYPE /\ t2.uid = tok.uid /\ t2.jti > tok.jti

\* C1: verify_token called with an access token minted for a user who is
\* present, not soft-deleted and active returns that user's id as long as
\* the token's exp has not been reached.
C1_IssuedAccessTokenVerifies ==
    (/\ last.op = "verify_token"
     /\ last.tok \in tokens
     /\ last.tok.typ = ACCESS_TOKEN_TYPE
     /\ Eligible(last.tok.uid)
     /\ now < last.tok.exp)
    => last.res = last.tok.uid

\* C1 witness: verify_token has returned the user id for the access token of
\* a generate_tokens pair.
C1_Witness ==
    /\ last.op = "verify_token"
    /\ last.tok.typ = ACCESS_TOKEN_TYPE
    /\ \E r \in tokens : r.typ = REFRESH_TOKEN_TYPE /\ r.jti = last.tok.jti + 1
    /\ Eligible(last.tok.uid)
    /\ last.res = last.tok.uid
    /\ last.res # None

\* C2: each operation rejects the tokens of the other kinds: verify_token a
\* refresh or reset token, refresh_access_token an access or reset token,
\* verify_password_reset_token and reset_user_password an access or refresh
\* token.
C2_KindChecked ==
    /\ (last.op = "verify_token" /\ last.tok.typ # ACCESS_TOKEN_TYPE) => last.res = None
    /\ (last.op = "refresh_access_token" /\ last.tok.typ # REFRESH_TOKEN_TYPE) => last.res = None
    /\ (last.op \in {"verify_password_reset_token", "reset_user_password"}
        /\ last.tok.typ # RESET_TOKEN_TYPE) => last.res = None

\* C2 witness: verify_token has rejected a signed, unexpired refresh token of
\* an eligible user.
C2_Witness ==
    /\ last.op = "verify_token"
    /\ last.tok \in tokens
    /\ last.tok.typ = REFRESH_TOKEN_TYPE
    /\ now < last.tok.exp
    /\ Eligible(last.tok.uid)
    /\ last.res = None

\* C3: refresh_access_token rejects the refresh token of an earlier
\* generate_tokens once a later generate_tokens for the same user has run.
C3_SupersededRefreshRejected ==
    /\ (last.op = "refresh_access_token" /\ Superseded(last.tok)) => last.res = None
    /\ \A tok \in tokens :
          Superseded(tok) => ~refresh_accepts(tok, users, refresh_slot, now)

\* C3 witness: the superseded token was presented while unexpired, for an
\* eligible user, and was rejected.
C3_Witness ==
    /\ last.op = "refresh_access_token"
    /\ Superseded(last.tok)
    /\ now < last.tok.exp
    /\ Eligible(last.tok.uid)
    /\ last.res = None

\* C4: once logout_user(user_id, refresh_token) has returned, the token
\* string it was given is not accepted by refresh_access_token.
C4_LogoutRevokesPresentedToken ==
    (last.op = "logout_user" /\ last.tok # NoToken)
    => ~refresh_accepts(last.tok, users, refresh_slot, now)

\* C5: for each subject at most one token string is accepted by
\* refresh_access_token.
C5_AtMostOneLiveRefresh ==
    \A u \in SubjectIds :
        Cardinality({tok \in TokenInputs :
                       tok.uid = u /\ refresh_accepts(tok, users, refresh_slot, now)}) <= 1

\* C5 witness: two unexpired refresh tokens of one eligible user exist;
\* refresh_access_token has just rejected one of them while the other is the
\* accepted one.
C5_Witness ==
    /\ last.op = "refresh_access_token"
    /\ last.res = None
    /\ last.tok.typ = REFRESH_TOKEN_TYPE
    /\ now < last.tok.exp
    /\ \E other \in tokens :
          /\ other # last.tok
          /\ other.uid = last.tok.uid
          /\ refresh_accepts(other, users, refresh_slot, now)

\* C6: after reset_user_password has succeeded with a reset token, the same
\* token string is no longer accepted.
C6_ResetTokenSingleUse ==
    (last.op = "reset_user_password" /\ last.res = 1)
    => verify_password_reset_token(last.tok, users, now) = None

\* C7: while blacklist_token:{jti} exists, verify_token and
\* refresh_access_token reject the token carrying that jti.
C7_BlacklistedTokenRejected ==
    (/\ last.op \in {"verify_token", "refresh_access_token"}
     /\ last.tok.jti \in DOMAIN blacklist
     /\ blacklist[last.tok.jti] # 0)
    => last.res = None

\* C8: a signed token whose exp lies in the past is rejected by verify_token,
\* refresh_access_token, verify_password_reset_token and reset_user_password.
C8_ExpiredRejected ==
    (/\ last.op \in {"verify_token", "refresh_access_token",
                     "verify_password_reset_token", "reset_user_password"}
     /\ last.tok.wf
     /\ last.tok.exp < now)
    => last.res = None

\* C8 witness: verify_token has rejected an expired access token of an
\* eligible user.
C8_Witness ==
    /\ last.op = "verify_token"
    /\ last.tok.wf
    /\ last.tok.typ = ACCESS_TOKEN_TYPE
    /\ last.tok.exp < now
    /\ Eligible(last.tok.uid)
    /\ last.res = None

C10_LatestRefreshSucceeds ==
    (/\ last.op = "refresh_access_token"
     /\ LatestRefresh(last.tok)
     /\ ~loggedOut[last.tok.uid]
     /\ Eligible(last.tok.uid)
     /\ now < last.tok.exp)
    => /\ last.res # None
       /\ \E a \in tokens :
             /\ a.jti = last.res
             /\ a.typ = ACCESS_TOKEN_TYPE
             /\ verify_token(a, users, now) = last.tok.uid

\* C10 witness: such a refresh has succeeded some time after the tokens were
\* generated.
C10_Witness ==
    /\ last.op = "refresh_access_token"
    /\ LatestRefresh(last.tok)
    /\ ~loggedOut[last.tok.uid]
    /\ last.tok.iat < utcnow_timestamp(now)
    /\ last.res # None

\* C11 as stated: logout_user returns True for every user id and every
\* optional token, also when one of its store operations raises.
C11_LogoutAlwaysTrue ==
    last.op = "logout_user" => last.res = 1

\* C11: logout_user never raises and returns True for every user id and every
\* optional token, also when decoding the token or the blacklist insertion
\* fails; it returns False exactly when the deletion of the refresh record
\* raises.
C11_LogoutTrueUnlessDeleteFails ==
    last.op = "logout_user"
    => /\ last.res \in {0, 1}
       /\ last.res = 0 <=> last.fault = "cache.delete"

\* C11 witness: logout_user has returned True although the blacklist
\* insertion for a valid refresh token raised.
C11_Witness ==
    /\ last.op = "logout_user"
    /\ last.fault = "cache.set"
    /\ last.tok \in tokens
    /\ last.tok.typ = REFRESH_TOKEN_TYPE
    /\ jwt_decode(last.tok, now) = "ok"
    /\ last.res = 1

\* C12: a reset_user_password call that returns False leaves the password of
\* every user and the password_reset records as they were before the call.
C12_FailedResetHasNoEffect ==
    [][(last = Idle /\ last'.op = "reset_user_password" /\ last'.res = 0)
       => (password' = password /\ reset_slot' = reset_slot)]_vars

\* C13: after reset_user_password has returned True for a token of
\* generate_password_reset_token(user) and new password p, check_password
\* accepts p and no other password for that user, and password_reset:{user.id}
\* is absent.
C13_SuccessfulResetSetsPassword ==
    (/\ last.op = "reset_user_password"
     /\ last.res = 1
     /\ last.tok \in tokens)
    => /\ check_password(password, last.tok.uid, last.arg)
       /\ \A q \in Passwords \ {last.arg} : ~check_password(password, last.tok.uid, q)
       /\ reset_slot[last.tok.uid] = NoEntry
       /\ cache_get(reset_slot[last.tok.uid], now) = NoToken

\* C13 witness: the reset has succeeded with a password different from the
\* one the user had at first.
C13_Witness ==
    /\ last.op = "reset_user_password"
    /\ last.res = 1
    /\ last.tok.typ = RESET_TOKEN_TYPE
    /\ last.arg = "newpassword123"
    /\ password[last.tok.uid] = "newpassword123"

\* C15: a token produced by _generate_token(user_id, token_type, expires_delta)
\* with a positive expires_delta decodes, at every time from its issuance up
\* to expires_delta later, to a payload whose user_id and token_type are the
\* ones given.
C15_RoundTrip ==
    (last.op = "_generate_token" /\ last.res > 0)
    => \A t \in now..(now + last.res - 1) :
          /\ jwt_decode(last.tok, t) = "ok"
          /\ jwt_payload(last.tok).user_id = last.uid
          /\ jwt_payload(last.tok).token_type = last.arg

\* C16: a token is rejected as expired at every time greater than or equal to
\* its exp, and a token issued with expires_delta 0 is rejected as expired by
\* verify_token right after it was issued.
C16_ExpiredAtBoundary ==
    last.op = "_generate_token"
    => /\ \A t \in now..MaxTime :
             t >= last.tok.exp
             => /\ jwt_decode(last.tok, t) = "ExpiredSignatureError"
                /\ verify_token(last.tok, users, t) = None
       /\ last.res = 0
          => /\ jwt_decode(last.tok, now) = "ExpiredSignatureError"
             /\ verify_token(last.tok, users, now) = None

\* C16 witness: an access token with expires_delta 0 has just been issued for
\* the active user and its exp is not later than the current time.
C16_Witness ==
    /\ last.op = "_generate_token"
    /\ last.res = 0
    /\ last.arg = ACCESS_TOKEN_TYPE
    /\ Eligible(last.uid)
    /\ last.tok.exp <= now
    /\ verify_token(last.tok, users, now) = None

\* C17: refresh_access_token, whether it succeeds or fails, leaves every
\* refresh_token:{user_id} record as it was; the only token it mints is an
\* access token; after a success the same refresh token is still accepted.
C17_RefreshDoesNotRotate ==
    [][(last = Idle /\ last'.op = "refresh_access_token")
       => /\ refresh_slot' = refresh_slot
          /\ \A tok \in tokens' \ tokens : tok.typ = ACCESS_TOKEN_TYPE
          /\ last'.res # None
             => /\ \E tok \in tokens' \ tokens : tok.jti = last'.res
                /\ refresh_accepts(last'.tok, users', refresh_slot', now')]_vars

\* C17 witness: a refresh has succeeded and the record still holds the
\* refresh token it was given.
C17_Witness ==
    /\ last.op = "refresh_access_token"
    /\ last.res # None
    /\ cache_get(refresh_slot[last.tok.uid], now) = last.tok
    /\ refresh_accepts(last.tok, users, refresh_slot, now)

\* C18: verify_password_reset_token returns the user of a signed, unexpired
\* reset token although the user's status is 'inactive' or 'suspended', while
\* verify_token rejects an access token of a user in that status.
C18_ResetIgnoresStatus ==
    (/\ last.op \in {"verify_password_reset_token", "verify_token"}
     /\ last.tok \in tokens
     /\ now < last.tok.exp
     /\ last.tok.uid \in UserIds
     /\ ~users[last.tok.uid].is_deleted
     /\ users[last.tok.uid].status \in {"inactive", "suspended"})
    => /\ (last.op = "verify_password_reset_token" /\ last.tok.typ = RESET_TOKEN_TYPE)
          => last.res = last.tok.uid
       /\ (last.op = "verify_token" /\ last.tok.typ = ACCESS_TOKEN_TYPE)
          => last.res = None

\* C18 witness: verify_password_reset_token has returned a suspended user.
C18_Witness ==
    /\ last.op = "verify_password_reset_token"
    /\ last.tok.typ = RESET_TOKEN_TYPE
    /\ users[last.tok.uid].status = "suspended"
    /\ ~users[last.tok.uid].is_deleted
    /\ last.res = last.tok.uid
    /\ last.res # None

\* C19: after two concurrent generate_tokens calls for one user have both
\* returned, refresh_access_token accepts exactly one of the two refresh
\* tokens they returned, the one whose cache.set was the later write, and
\* rejects the other (the user being eligible and the tokens unexpired).
C19_LastWriteWins ==
    /\ (/\ \A w \in Workers : calls[w].pc \in {"returned", "refreshed"}
        /\ \A w \in Workers : Eligible(calls[w].tok.uid) /\ now < calls[w].tok.exp)
       => /\ Cardinality({w \in Workers :
                            refresh_accepts(calls[w].tok, users, refresh_slot, now)}) = 1
          /\ \A w \in Workers :
                refresh_accepts(calls[w].tok, users, refresh_slot, now)
                <=> calls[w].landed = Cardinality(Workers)
    /\ \A w \in Workers :
          (calls[w].pc = "refreshed" /\ calls[w].res # None)
          => calls[w].landed = Cardinality(Workers)

\* C19 witness: both refresh tokens have been presented; the one written
\* last was accepted and the other one rejected while unexpired.
C19_Witness ==
    \E w, v \in Workers :
        /\ calls[w].pc = "refreshed" /\ calls[w].res # None /\ calls[w].landed = 2
        /\ calls[v].pc = "refreshed" /\ calls[v].res = None /\ calls[v].landed = 1
        /\ calls[v].at < calls[v].tok.exp
        /\ calls[v].tok.uid = calls[w].tok.uid

\* C14: verify_token, refresh_access_token, verify_password_reset_token and
\* reset_user_password return their failure value (None, False), and raise
\* nothing, for every string that is not a signed token: the empty string,
\* two or four segments, three segments that do not decode, a wrong signature.
C14_MalformedRejected ==
    (/\ last.op \in {"verify_token", "refresh_access_token",
                     "verify_password_reset_token", "reset_user_password"}
     /\ ~last.tok.wf)
    => last.res = None

\* C14 witness: verify_token has returned None for an access token with a
\* wrong signature whose correctly signed original it accepts.
C14_Witness ==
    /\ last.op = "verify_token"
    /\ \E a \in tokens :
          /\ last.tok = Forged(a)
          /\ verify_token(a, users, now) = a.uid
          /\ a.uid # None
    /\ last.res = None

\* C20: the endpoint validate_token answers valid=True with the user id
\* exactly for the tokens that verify_token accepts, and valid=False for
\* every other string.
C20_ValidateAgreesWithVerify ==
    last.op = "validate_token"
    => last.res = verify_token(last.tok, users, now)

\* C26 as stated: when the store fails during generate_tokens,
\* refresh_access_token or generate_password_reset_token, the failure leaves
\* the function as an error; no tokens and no ordinary None are returned.
C26_StoreFailurePropagates ==
    (/\ last.op \in {"generate_tokens", "refresh_access_token", "generate_password_reset_token"}
     /\ last.fault # "none")
    => last.res = Raised

\* C26: a failure of cache.set leaves generate_tokens and
\* generate_password_reset_token as an exception, and the record they were
\* writing is as before; a failure of cache.get during refresh_access_token
\* is caught and the function returns None, as for an invalid token, and
\* mints nothing.  No store operation is repeated.
C26_StoreFailurePropagatesExceptRefresh ==
    [][(/\ last = Idle
        /\ last'.op \in {"generate_tokens", "refresh_access_token",
                          "generate_password_reset_token"}
        /\ last'.fault # "none")
       => /\ last'.res = IF last'.op = "refresh_access_token" THEN None ELSE Raised
          /\ last'.op # "refresh_access_token" => last'.tok = NoToken
          /\ tokens' = tokens
          /\ refresh_slot' = refresh_slot
          /\ reset_slot' = reset_slot]_vars

\* C26 witness: cache.get has failed during the refresh of the stored,
\* unexpired refresh token of an active user, and None came back.
C26_Witness ==
    /\ last.op = "refresh_access_token"
    /\ last.fault = "cache.get"
    /\ cache_get(refresh_slot[last.tok.uid], now) = last.tok
    /\ now < last.tok.exp
    /\ last.res = None

\* C21: the record refresh_token:{user_id} is either absent or holds a token.
\* It comes to hold a token, or another token, only by generate_tokens for
\* that user; it becomes absent only by logout_user for that user or when its
\* timeout passes; no other operation changes it.
C21_SlotTransitions ==
    [][\A u \in SubjectIds :
          refresh_slot'[u] # refresh_slot[u]
          => IF refresh_slot'[u] # NoEntry
             THEN /\ last'.op = "generate_tokens"
                  /\ last'.uid = u
                  /\ refresh_slot'[u].val = last'.tok
             ELSE \/ last'.op = "logout_user" /\ last'.uid = u
                  \/ now' > now /\ refresh_slot[u].until <= now']_vars

\* C21 witness: logout_user has removed the record of a user whose refresh
\* token was issued at this instant, so the record was present and its
\* timeout had not passed.
C21_Witness ==
    /\ last.op = "logout_user"
    /\ refresh_slot[last.uid] = NoEntry
    /\ \E tok \in tokens :
          /\ tok.typ = REFRESH_TOKEN_TYPE
          /\ tok.uid = last.uid
          /\ tok.iat = utcnow_timestamp(now)

\* a token on the blacklist gets the result its other properties give it
ResultsIgnoreBlacklist ==
    /\ (/\ last.op = "verify_token"
        /\ last.tok \in tokens
        /\ blacklist[last.tok.jti] # 0)
       => last.res = IF /\ last.tok.typ = ACCESS_TOKEN_TYPE
                        /\ Eligible(last.tok.uid)
                        /\ now < last.tok.exp
                     THEN last.tok.uid ELSE None
    /\ (/\ last.op = "refresh_access_token"
        /\ last.tok \in tokens
        /\ blacklist[last.tok.jti] # 0)
       => (last.res # None
           <=> /\ last.tok.typ = REFRESH_TOKEN_TYPE
               /\ Eligible(last.tok.uid)
               /\ now < last.tok.exp
               /\ cache_get(refresh_slot[last.tok.uid], now) = last.tok)

\* C22: verify_token and refresh_access_token give a token whose jti is on
\* the blacklist the result they give it without the entry; blacklist entries
\* are added only by logout_user (and dropped only when their timeout passes).
C22_BlacklistNotConsulted ==
    [][/\ ResultsIgnoreBlacklist'
       /\ \A j \in DOMAIN blacklist :
             blacklist'[j] # blacklist[j]
             => \/ last'.op = "logout_user" /\ last'.tok.jti = j
                \/ now' > now /\ blacklist'[j] = 0]_vars

\* C22 witness: verify_token has returned the user id for an access token
\* whose jti is on the blacklist.
C22_Witness ==
    /\ last.op = "verify_token"
    /\ last.tok \in tokens
    /\ blacklist[last.tok.jti] # 0
    /\ last.res = last.tok.uid
    /\ last.res # None

\* C23: after generate_password_reset_token ran twice for a user, the first
\* reset token is still accepted by verify_password_reset_token and
\* reset_user_password until its exp, whatever password_reset:{user_id} holds.
C23_SupersededResetAccepted ==
    (/\ last.op \in {"verify_password_reset_token", "reset_user_password"}
     /\ last.fault = "none"
     /\ last.tok \in tokens
     /\ last.tok.typ = RESET_TOKEN_TYPE
     /\ UndeletedUser(users, last.tok.uid)
     /\ now < last.tok.exp)
    => last.res = IF last.op = "reset_user_password" THEN 1 ELSE last.tok.uid

\* C23 witness: verify_password_reset_token has returned the user for a reset
\* token that a later one superseded and that the record does not hold.
C23_Witness ==
    /\ last.op = "verify_password_reset_token"
    /\ last.tok.typ = RESET_TOKEN_TYPE
    /\ \E t2 \in tokens :
          t2.typ = RESET_TOKEN_TYPE /\ t2.uid = last.tok.uid /\ t2.jti > last.tok.jti
    /\ reset_slot[last.tok.uid].val # last.tok
    /\ last.res = last.tok.uid
    /\ last.res # None

\* C24: a token produced at time t with lifetime d carries iat = t and
\* exp = t + d on the clock jwt.decode compares with, so it is not rejected as
\* expired at any time from t up to, but not including, t + d.
C24_SameClock ==
    last.op = "_generate_token"
    => /\ last.tok.iat = now
       /\ last.tok.exp = now + last.res
       /\ \A t \in now..(now + last.res - 1) :
             jwt_decode(last.tok, t) # "ExpiredSignatureError"

\* C25: logout_user adds a blacklist entry only for a token that decodes, under
\* the key of that token's jti, with a timeout equal to the time the token has
\* left when logout runs, which is positive.
C25_BlacklistEntryLifetime ==
    [][\A j \in DOMAIN blacklist :
          (last'.op = "logout_user" /\ blacklist'[j] # blacklist[j])
          => /\ j = last'.tok.jti
             /\ jwt_decode(last'.tok, now) = "ok"
             /\ blacklist'[j] - now = last'.tok.exp - now
             /\ blacklist'[j] - now > 0]_vars

\* C27: logout_user for a user whose record is absent returns True and leaves
\* every record as it was; after a logout_user whose cache.delete did not
\* fail the record of that user is absent, so a second call changes nothing.
C27_LogoutIdempotent ==
    [][(last = Idle /\ last'.op = "logout_user" /\ last'.fault = "none")
       => /\ refresh_slot'[last'.uid] = NoEntry
          /\ refresh_slot[last'.uid] = NoEntry
             => /\ refresh_slot' = refresh_slot
                /\ last'.res = 1]_vars

\* C27 witness: logout_user has returned True for a user who was never issued
\* a token.
C27_Witness ==
    /\ last.op = "logout_user"
    /\ last.fault = "none"
    /\ \A tok \in tokens : tok.uid # last.uid
    /\ refresh_slot[last.uid] = NoEntry
    /\ last.res = 1

\* C28: a refresh_access_token call that returns an access token does not
\* return it after a logout_user for the token's user has returned, unless
\* generate_tokens ran for that user since.
C28_NoRefreshAfterLogout ==
    [][\A w \in Workers :
          (/\ calls[w].pc = "checked"
           /\ calls'[w].pc = "refreshed"
           /\ calls'[w].res # None)
          => ~(loggedOut[calls[w].tok.uid] /\ last = Idle)]_vars

\* C29: generate_password_reset_token, verify_password_reset_token and
\* reset_user_password leave every refresh_token:{user_id} record and every
\* blacklist entry as they were, and a refresh token that refresh_access_token
\* accepted before the call is accepted after it.
C29_ResetLeavesSession ==
    [][(/\ last = Idle
        /\ last'.op \in {"generate_password_reset_token", "verify_password_reset_token",
                         "reset_user_password"})
       => /\ refresh_slot' = refresh_slot
          /\ blacklist' = blacklist
          /\ \A tok \in tokens :
                refresh_accepts(tok, users, refresh_slot, now)
                => refresh_accepts(tok, users', refresh_slot', now')]_vars

\* C29 witness: reset_user_password has succeeded while the user's stored
\* refresh token is one that refresh_access_token accepts.
C29_Witness ==
    /\ last.op = "reset_user_password"
    /\ last.res = 1
    /\ \E tok \in tokens :
          /\ tok.uid = last.tok.uid
          /\ refresh_accepts(tok, users, refresh_slot, now)

\* C30: verify_password_reset_token and reset_user_password reject a signed,
\* unexpired reset token while its user is soft-deleted, and the password
\* stays as it was; once the user is restored the token is accepted again.
C30_SoftDeletedResetRejected ==
    [][/\ (/\ last = Idle
           /\ last'.op \in {"verify_password_reset_token", "reset_user_password"}
           /\ last'.tok \in tokens
           /\ last'.tok.typ = RESET_TOKEN_TYPE
           /\ users[last'.tok.uid].is_deleted)
          => /\ last'.res = None
             /\ password' = password
       /\ \A u \in UserIds :
             (users[u].is_deleted /\ ~users'[u].is_deleted)
             => \A tok \in tokens :
                   (tok.typ = RESET_TOKEN_TYPE /\ tok.uid = u /\ now' < tok.exp)
                   => verify_password_reset_token(tok, users', now') = u]_vars

\* C30 witness: verify_password_reset_token has returned None for a signed,
\* unexpired reset token whose user is soft-deleted.
C30_Witness ==
    /\ last.op = "verify_password_reset_token"
    /\ last.tok \in tokens
    /\ last.tok.typ = RESET_TOKEN_TYPE
    /\ now < last.tok.exp
    /\ users[last.tok.uid].is_deleted
    /\ last.res = None

====
